---- MODULE Spec2Model ----
(***************************************************************************)
(* Model of video-metadata-extractor.py: the entry point, create_report,   *)
(* get_metadata and the helpers parse_framerate, detect_hdr, size_in_gb.   *)
(*                                                                         *)
(* Python values are tagged records [t, v]; a str is a sequence of         *)
(* one-character strings, so that lower(), upper(), split() and the `in`   *)
(* substring test are computed character by character.                     *)
(***************************************************************************)
EXTENDS Integers, Sequences, FiniteSets, TLC

VARIABLES dirs, output_path, pc, d, k, fmt, rows, probed, saves, out, exc, call

vars == <<dirs, output_path, pc, d, k, fmt, rows, probed, saves, out, exc, call>>

-----------------------------------------------------------------------------
(* Bounds of the model. *)

MaxDirs == 2

MaxFiles == 2

MaxStreams == 2

-----------------------------------------------------------------------------
(* Python values. *)

None == [t |-> "None", v |-> <<>>]

Str(s) == [t |-> "str", v |-> s]

IntV(n) == [t |-> "int", v |-> n]

Float(n, scale) == [t |-> "float", v |-> <<n, scale>>]

Dict(f) == [t |-> "dict", v |-> f]

EmptyDict == Dict(<<>>)

Get(m, key, default) == IF key \in DOMAIN m.v THEN m.v[key] ELSE default

Truthy(x) ==
    CASE x.t = "None" -> FALSE
      [] x.t = "str" -> Len(x.v) > 0
      [] x.t = "int" -> x.v # 0
      [] x.t = "dict" -> DOMAIN x.v # {}
      [] OTHER -> TRUE

-----------------------------------------------------------------------------
(* str methods. *)

UpperCase == <<"A", "B", "C", "D", "E", "F", "G", "H", "I", "J", "K", "L", "M", "N", "O", "P", "Q", "R", "S", "T", "U", "V", "W", "X", "Y", "Z">>

LowerCase == <<"a", "b", "c", "d", "e", "f", "g", "h", "i", "j", "k", "l", "m", "n", "o", "p", "q", "r", "s", "t", "u", "v", "w", "x", "y", "z">>

LowerChar(c) ==
    IF \E n \in 1..26 : UpperCase[n] = c
    THEN LowerCase[CHOOSE n \in 1..26 : UpperCase[n] = c]
    ELSE c

UpperChar(c) ==
    IF \E n \in 1..26 : LowerCase[n] = c
    THEN UpperCase[CHOOSE n \in 1..26 : LowerCase[n] = c]
    ELSE c

Lower(s) == [n \in 1..Len(s) |-> LowerChar(s[n])]

Upper(s) == [n \in 1..Len(s) |-> UpperChar(s[n])]

Contains(word, s) ==
    \E n \in 0..(Len(s) - Len(word)) : SubSeq(s, n + 1, n + Len(word)) = word

EndsWith(s, suffix) ==
    /\ Len(s) >= Len(suffix)
    /\ SubSeq(s, Len(s) - Len(suffix) + 1, Len(s)) = suffix

RECURSIVE Split(_, _)
Split(s, sep) ==
    IF \E n \in 1..Len(s) : s[n] = sep
    THEN LET n == CHOOSE m \in 1..Len(s) :
                      s[m] = sep /\ \A j \in 1..(m - 1) : s[j] # sep
         IN <<SubSeq(s, 1, n - 1)>> \o Split(SubSeq(s, n + 1, Len(s)), sep)
    ELSE <<s>>

RECURSIVE Join(_, _)
Join(sep, parts) ==
    IF Len(parts) = 0 THEN <<>>
    ELSE IF Len(parts) = 1 THEN parts[1]
    ELSE parts[1] \o sep \o Join(sep, Tail(parts))

Digits == <<"0", "1", "2", "3", "4", "5", "6", "7", "8", "9">>

DigitVal(c) == (CHOOSE n \in 1..10 : Digits[n] = c) - 1

IsDigit(c) == \E n \in 1..10 : Digits[n] = c

RECURSIVE Strip(_)
Strip(s) ==
    IF Len(s) > 0 /\ s[1] = " " THEN Strip(Tail(s))
    ELSE IF Len(s) > 0 /\ s[Len(s)] = " " THEN Strip(SubSeq(s, 1, Len(s) - 1))
    ELSE s

RECURSIVE DigitsVal(_)
DigitsVal(s) ==
    IF Len(s) = 0 THEN 0
    ELSE 10 * DigitsVal(SubSeq(s, 1, Len(s) - 1)) + DigitVal(s[Len(s)])

(* int(s): surrounding blanks, an optional sign, then decimal digits;      *)
(* anything else raises ValueError.                                        *)
int(s) ==
    LET body == Strip(s)
        signed == Len(body) > 0 /\ body[1] \in {"+", "-"}
        digs == IF signed THEN Tail(body) ELSE body
    IN IF Len(digs) > 0 /\ \A n \in 1..Len(digs) : IsDigit(digs[n])
       THEN [ok |-> TRUE,
             v |-> IF signed /\ body[1] = "-" THEN 0 - DigitsVal(digs)
                   ELSE DigitsVal(digs)]
       ELSE [ok |-> FALSE, v |-> 0]

RECURSIVE NatStr(_)
NatStr(n) ==
    IF n < 10 THEN <<Digits[n + 1]>>
    ELSE NatStr(n \div 10) \o <<Digits[(n % 10) + 1]>>

(* str(x) as an f-string field renders it. *)
Format(x) ==
    CASE x.t = "None" -> <<"N", "o", "n", "e">>
      [] x.t = "str" -> x.v
      [] x.t = "int" -> IF x.v < 0 THEN <<"-">> \o NatStr(0 - x.v) ELSE NatStr(x.v)

-----------------------------------------------------------------------------
(* Floats: a quotient of integers rounded to a fixed number of decimals.   *)

Abs(n) == IF n < 0 THEN 0 - n ELSE n

(* num / denom rounded to the nearest integer, for num >= 0, denom > 0.    *)
(* Python rounds the double nearest to the quotient, which differs from    *)
(* the quotient only at an exact tie; no value of the model is a tie, and  *)
(* the tie branch keeps the operator total.                                *)
RoundDiv(num, denom) ==
    LET q == num \div denom
        r == num % denom
    IN IF 2 * r > denom THEN q + 1
       ELSE IF 2 * r < denom THEN q
       ELSE IF q % 2 = 0 THEN q ELSE q + 1

(* f"{num / denom:.3f}": Python's true division keeps the sign of a zero   *)
(* quotient, so 0 / -1 and -1 / 3000 both print as "-0.000".               *)
Fixed3(num, denom) ==
    LET n == RoundDiv(Abs(num) * 1000, Abs(denom))
        frac == n % 1000
        neg == (num < 0) # (denom < 0)
    IN (IF neg THEN <<"-">> ELSE <<>>)
       \o NatStr(n \div 1000) \o <<".">>
       \o <<Digits[(frac \div 100) + 1], Digits[((frac \div 10) % 10) + 1],
            Digits[(frac % 10) + 1]>>

-----------------------------------------------------------------------------
(* parse_framerate. *)

(* parse_framerate taking the first two parts of a longer split. *)
parse_framerate_first_two(rate) ==
    IF rate.t # "str" THEN None
    ELSE LET parts == Split(rate.v, "/")
         IN IF Len(parts) < 2 THEN None
            ELSE LET num == int(parts[1])
                     denom == int(parts[2])
                 IN IF ~num.ok \/ ~denom.ok THEN None
                    ELSE IF denom.v = 0 THEN None
                    ELSE Str(Fixed3(num.v, denom.v) \o <<" ", "f", "p", "s">>)

parse_framerate(rate) ==
    IF rate.t # "str" THEN None
    ELSE LET parts == Split(rate.v, "/")
         IN IF Len(parts) # 2 THEN None
            ELSE LET num == int(parts[1])
                     denom == int(parts[2])
                 IN IF ~num.ok \/ ~denom.ok THEN None
                    ELSE IF denom.v = 0 THEN None
                    ELSE Str(Fixed3(num.v, denom.v) \o <<" ", "f", "p", "s">>)

-----------------------------------------------------------------------------
(* detect_hdr. *)

hdr_keywords == <<<<"b", "t", "2", "0", "2", "0">>, <<"s", "m", "p", "t", "e", "2", "0", "8", "4">>, <<"a", "r", "i", "b", "-", "s", "t", "d", "-", "b", "6", "7">>>>

OrEmpty(x) == IF Truthy(x) THEN x.v ELSE <<>>

(* detect_hdr looking at the inputs only when both are given. *)
detect_hdr_both(color, transfer) ==
    IF Truthy(color) /\ Truthy(transfer)
    THEN IF \E n \in 1..Len(hdr_keywords) :
                Contains(hdr_keywords[n], Lower(OrEmpty(color)))
         THEN Str(<<"H", "D", "R">>)
         ELSE IF \E n \in 1..Len(hdr_keywords) :
                     Contains(hdr_keywords[n], Lower(OrEmpty(transfer)))
         THEN Str(<<"H", "D", "R">>)
         ELSE Str(<<"S", "D", "R">>)
    ELSE Str(<<"S", "D", "R">>)

detect_hdr(color, transfer) ==
    IF Truthy(color) \/ Truthy(transfer)
    THEN IF \E n \in 1..Len(hdr_keywords) :
                Contains(hdr_keywords[n], Lower(OrEmpty(color)))
         THEN Str(<<"H", "D", "R">>)
         ELSE IF \E n \in 1..Len(hdr_keywords) :
                     Contains(hdr_keywords[n], Lower(OrEmpty(transfer)))
         THEN Str(<<"H", "D", "R">>)
         ELSE Str(<<"S", "D", "R">>)
    ELSE Str(<<"S", "D", "R">>)

-----------------------------------------------------------------------------
(* size_in_gb: round(bytes / 1024 ** 3, 3), held in thousandths of a GB.    *)

GiB == 1073741824

size_in_gb(bytes) == Float(RoundDiv(bytes * 1000, GiB), 1000)

-----------------------------------------------------------------------------
(* get_metadata.  A probe is what running ffprobe on the file does:        *)
(* subprocess.run raises (no ffprobe executable), or it returns with an    *)
(* exit status and a stdout that is empty, not JSON, or a JSON document.   *)

json_loads(stdout) ==
    IF stdout.kind = "json" THEN [ok |-> TRUE, v |-> stdout.doc]
    ELSE [ok |-> FALSE, v |-> None]

get_metadata(probe) ==
    IF probe.raises THEN [v |-> None, printed |-> TRUE]
    ELSE LET parsed == json_loads(probe.stdout)
         IN IF parsed.ok THEN [v |-> parsed.v, printed |-> FALSE]
            ELSE [v |-> None, printed |-> TRUE]

-----------------------------------------------------------------------------
(* create_report: the body of the loop over the streams of one file.       *)

Unbound == [t |-> "unbound", v |-> <<>>]

Defaults ==
    [res |-> None, vid_codec |-> None, profile |-> None, framerate |-> None,
     hdr |-> Str(<<"S", "D", "R">>), audio_tracks |-> <<>>, raised |-> "none"]

(* f"Track {track_num}/{codec}/{lang}"; the language tag defaults to        *)
(* 'Unknown' and is uppercased.                                            *)
audio_track_as_tagged(stream, lang) ==
    <<"T", "r", "a", "c", "k", " ">> \o Format(Get(stream, "index", None)) \o <<"/">>
    \o Format(Get(stream, "codec_name", None)) \o <<"/">> \o lang

audio_track(stream, lang) ==
    <<"T", "r", "a", "c", "k", " ">> \o Format(Get(stream, "index", None)) \o <<"/">>
    \o Format(Get(stream, "codec_name", None)) \o <<"/">> \o Upper(lang)

stream_step(acc, stream) ==
    IF acc.raised # "none" THEN acc
    ELSE IF Get(stream, "codec_type", None) = Str(<<"v", "i", "d", "e", "o">>)
    THEN [acc EXCEPT
            !.res = Str(Format(Get(stream, "width", None)) \o <<"x">>
                        \o Format(Get(stream, "height", None))),
            !.vid_codec = Get(stream, "codec_name", None),
            !.profile = Get(stream, "profile", None),
            !.framerate = parse_framerate(Get(stream, "r_frame_rate", None)),
            !.hdr = detect_hdr(Get(stream, "color_space", None),
                               Get(stream, "color_transfer", None))]
    ELSE IF Get(stream, "codec_type", None) = Str(<<"a", "u", "d", "i", "o">>)
    THEN LET tags == Get(stream, "tags", EmptyDict)
         IN IF tags.t # "dict" THEN [acc EXCEPT !.raised = "AttributeError"]
            ELSE LET lang == Get(tags, "language", Str(<<"U", "n", "k", "n", "o", "w", "n">>))
                 IN IF lang.t # "str"
                    THEN [acc EXCEPT !.raised = "AttributeError"]
                    ELSE [acc EXCEPT !.audio_tracks =
                              Append(@, audio_track(stream, lang.v))]
    ELSE acc

RECURSIVE stream_loop(_, _)
stream_loop(acc, streams) ==
    IF Len(streams) = 0 THEN acc
    ELSE stream_loop(stream_step(acc, Head(streams)), Tail(streams))

(* bitrate = fmt.get('bit_rate'); if bitrate: round(int(bitrate)/1000, 2)  *)
bitrate_kbps(fmtv) ==
    LET bitrate == Get(fmtv, "bit_rate", None)
    IN IF ~Truthy(bitrate) THEN [raised |-> "none", v |-> bitrate]
       ELSE IF bitrate.t # "str" \/ ~int(bitrate.v).ok
       THEN [raised |-> "ValueError", v |-> None]
       ELSE [raised |-> "none",
             v |-> Float(RoundDiv(int(bitrate.v).v, 10), 100)]

(* Lines 81-123: one file.  fmt0 is the local fmt as the previous          *)
(* iteration left it; it is assigned only when meta is truthy.             *)
process_file(path, size, probe, fmt0) ==
    LET meta == get_metadata(probe).v
        fmt1 == IF Truthy(meta) THEN Get(meta, "format", EmptyDict) ELSE fmt0
        br == IF Truthy(meta) THEN bitrate_kbps(fmt1)
              ELSE [raised |-> "none", v |-> None]
        acc == IF Truthy(meta) /\ br.raised = "none"
               THEN stream_loop(Defaults, Get(meta, "streams", <<>>))
               ELSE Defaults
        raised == IF br.raised # "none" THEN br.raised
                  ELSE IF acc.raised # "none" THEN acc.raised
                  ELSE IF fmt1 = Unbound THEN "UnboundLocalError"
                  ELSE "none"
    IN [raised |-> raised,
        fmt |-> fmt1,
        meta |-> meta,
        row |-> IF raised # "none" THEN <<>>
                ELSE [path |-> path,
                      size |-> size_in_gb(size),
                      res |-> acc.res,
                      audio |-> IF Len(acc.audio_tracks) > 0
                                THEN Str(Join(<<";", " ">>, acc.audio_tracks))
                                ELSE None,
                      vid_codec |-> acc.vid_codec,
                      profile |-> acc.profile,
                      bitrate |-> br.v,
                      container |-> Get(fmt1, "format_name", None),
                      framerate |-> acc.framerate,
                      hdr |-> acc.hdr]]

-----------------------------------------------------------------------------
(* The entry point's choice (lines 148-153). *)

(* The entry point testing only the list of directories. *)
main_dirs_only(dirs_, output_path_) ==
    IF Len(dirs_) = 0 THEN "no_dirs" ELSE "run"

main(dirs_, output_path_) ==
    IF Len(dirs_) = 0 THEN "no_dirs"
    ELSE IF Len(output_path_) = 0 THEN "no_output"
    ELSE "run"

(* Lines 126-127: the file the workbook is saved to. *)
save_target(output_path_) ==
    IF EndsWith(output_path_, <<".", "x", "l", "s", "x">>) THEN output_path_
    ELSE output_path_ \o <<"/", "v", "i", "d", "e", "o", "_", "m", "e", "t", "a", "d", "a", "t", "a", ".", "x", "l", "s", "x">>

Header ==
    [path |-> "Path", size |-> "Size (GB)", res |-> "Resolution",
     audio |-> "Audio Tracks", vid_codec |-> "Video Codec",
     profile |-> "Profile", bitrate |-> "Bitrate (kbps)",
     container |-> "Container", framerate |-> "Frame Rate",
     hdr |-> "HDR/SDR"]

-----------------------------------------------------------------------------
(* The media library the program is run on. *)

SeqsUpTo(S, n) == UNION {[1..m -> S] : m \in 0..n}

VideoH264 ==
    Dict([codec_type |-> Str(<<"v", "i", "d", "e", "o">>), index |-> IntV(0),
          codec_name |-> Str(<<"h", "2", "6", "4">>), profile |-> Str(<<"H", "i", "g", "h">>),
          width |-> IntV(1920), height |-> IntV(1080),
          r_frame_rate |-> Str(<<"2", "4", "0", "0", "0", "/", "1", "0", "0", "1">>),
          color_space |-> Str(<<"b", "t", "7", "0", "9">>), color_transfer |-> Str(<<"b", "t", "7", "0", "9">>)])

VideoHevc ==
    Dict([codec_type |-> Str(<<"v", "i", "d", "e", "o">>), index |-> IntV(0),
          codec_name |-> Str(<<"h", "e", "v", "c">>), profile |-> Str(<<"M", "a", "i", "n", " ", "1", "0">>),
          width |-> IntV(3840), height |-> IntV(2160),
          r_frame_rate |-> Str(<<"2", "4", "/", "1">>),
          color_space |-> Str(<<"B", "T", "2", "0", "2", "0", "n", "c">>),
          color_transfer |-> Str(<<"s", "m", "p", "t", "e", "2", "0", "8", "4">>)])

VideoCover ==
    Dict([codec_type |-> Str(<<"v", "i", "d", "e", "o">>), index |-> IntV(3),
          codec_name |-> Str(<<"m", "j", "p", "e", "g">>),
          width |-> IntV(600), height |-> IntV(600),
          r_frame_rate |-> Str(<<"0", "/", "0">>)])

VideoBare == Dict([codec_type |-> Str(<<"v", "i", "d", "e", "o">>), index |-> IntV(0)])

AudioEng ==
    Dict([codec_type |-> Str(<<"a", "u", "d", "i", "o">>), index |-> IntV(1),
          codec_name |-> Str(<<"a", "a", "c">>),
          tags |-> Dict([language |-> Str(<<"e", "n", "g">>)])])

AudioNoTags ==
    Dict([codec_type |-> Str(<<"a", "u", "d", "i", "o">>), index |-> IntV(2),
          codec_name |-> Str(<<"a", "c", "3">>)])

AudioNoLanguage ==
    Dict([codec_type |-> Str(<<"a", "u", "d", "i", "o">>), index |-> IntV(2),
          codec_name |-> Str(<<"d", "t", "s">>),
          tags |-> Dict([title |-> Str(<<"C", "o", "m", "m", "e", "n", "t", "a", "r", "y">>)])])

AudioNullLanguage ==
    Dict([codec_type |-> Str(<<"a", "u", "d", "i", "o">>), index |-> IntV(2),
          codec_name |-> Str(<<"o", "p", "u", "s">>),
          tags |-> Dict([language |-> None])])

Subtitle ==
    Dict([codec_type |-> Str(<<"s", "u", "b", "t", "i", "t", "l", "e">>), index |-> IntV(4),
          codec_name |-> Str(<<"s", "u", "b", "r", "i", "p">>)])

StreamKinds ==
    {VideoH264, VideoHevc, VideoCover, VideoBare, AudioEng, AudioNoTags,
     AudioNoLanguage, AudioNullLanguage, Subtitle}

FormatMkv ==
    Dict([format_name |-> Str(<<"m", "a", "t", "r", "o", "s", "k", "a">>), bit_rate |-> Str(<<"5", "0", "0", "0", "0", "0", "0">>)])

FormatMp4 ==
    Dict([format_name |-> Str(<<"m", "p", "4">>), bit_rate |-> Str(<<"1", "2", "3", "4", "5", "6", "7">>)])

FormatNoBitrate == Dict([format_name |-> Str(<<"m", "p", "3">>)])

FormatBadBitrate ==
    Dict([format_name |-> Str(<<"m", "p", "e", "g", "t", "s">>), bit_rate |-> Str(<<"N", "/", "A">>)])

Formats == {FormatMkv, FormatMp4, FormatNoBitrate, FormatBadBitrate}

Doc(format, streams) == Dict([format |-> format, streams |-> streams])

(* Every ffprobe document over the formats and stream kinds above, a key   *)
(* being present or absent.                                                *)
Docs ==
    {Doc(f, ss) : f \in Formats, ss \in SeqsUpTo(StreamKinds, MaxStreams)}
    \cup {Dict([streams |-> ss]) : ss \in SeqsUpTo(StreamKinds, MaxStreams)}
    \cup {Dict([format |-> f]) : f \in Formats}
    \cup {EmptyDict}

Ran(rc, stdout) == [raises |-> FALSE, returncode |-> rc, stdout |-> stdout]

Json(doc) == [kind |-> "json", doc |-> doc]

ProbeOk(doc) == Ran(0, Json(doc))

ProbeNoExecutable ==
    [raises |-> TRUE, returncode |-> 0, stdout |-> [kind |-> "empty", doc |-> None]]

ProbeEmptyOutput == Ran(1, [kind |-> "empty", doc |-> None])

ProbeMalformedOutput == Ran(0, [kind |-> "malformed", doc |-> None])

ProbeNonZeroExit == Ran(1, Json(EmptyDict))

FailedProbes ==
    {ProbeNoExecutable, ProbeEmptyOutput, ProbeMalformedOutput,
     ProbeNonZeroExit}

ScanProbes ==
    FailedProbes \cup
    {ProbeOk(Doc(FormatMkv, <<VideoH264, AudioEng>>)),
     ProbeOk(Doc(FormatMp4, <<VideoHevc, AudioEng, AudioNoTags>>)),
     ProbeOk(Doc(FormatNoBitrate, <<AudioEng, AudioNoLanguage>>)),
     ProbeOk(Doc(FormatMkv, <<VideoH264, VideoCover>>)),
     ProbeOk(Doc(FormatBadBitrate, <<VideoH264>>)),
     ProbeOk(Dict([streams |-> <<AudioNullLanguage>>]))}

File(size, probe) == [isfile |-> TRUE, size |-> size, probe |-> probe]

NotAFile == [isfile |-> FALSE, size |-> 0, probe |-> ProbeNoExecutable]

ScanEntries ==
    {File(600000, p) : p \in ScanProbes}
    \cup {File(2000000, ProbeOk(Doc(FormatMkv, <<VideoH264, AudioEng>>))),
          NotAFile}

(* The lists of at most nd directories that hold at most nf entries.       *)
RECURSIVE Libraries(_, _, _)
Libraries(E, nd, nf) ==
    IF nd = 0 THEN {<<>>}
    ELSE {<<>>} \cup
         UNION {{<<l>> \o rest : l \in [1..m -> E],
                                 rest \in Libraries(E, nd - 1, nf - m)} :
                m \in 0..nf}

ScanLibraries == Libraries(ScanEntries, MaxDirs, MaxFiles)

ProbeLibraries == {<< <<File(600000, ProbeOk(doc))>> >> : doc \in Docs}

OutputPaths == {<<>>, <<"r", "e", "p", "o", "r", "t", "s">>, <<"r", ".", "x", "l", "s", "x">>}

-----------------------------------------------------------------------------
(* The program. *)

Idle == [fn |-> "none", args |-> <<>>, ret |-> None, returned |-> FALSE]

Init ==
    /\ dirs \in ScanLibraries \cup ProbeLibraries
    /\ output_path \in OutputPaths
    /\ pc = "main"
    /\ d = 0
    /\ k = 0
    /\ fmt = Unbound
    /\ rows = <<>>
    /\ probed = <<>>
    /\ saves = <<>>
    /\ out = <<>>
    /\ exc = "none"
    /\ call = Idle

MainNoDirs ==
    /\ pc = "main"
    /\ main(dirs, output_path) = "no_dirs"
    /\ out' = Append(out, "Please add your video directory paths")
    /\ pc' = "exit"
    /\ UNCHANGED <<dirs, output_path, d, k, fmt, rows, probed, saves, exc, call>>

MainNoOutput ==
    /\ pc = "main"
    /\ main(dirs, output_path) = "no_output"
    /\ out' = Append(out, "Please specify the output path")
    /\ pc' = "exit"
    /\ UNCHANGED <<dirs, output_path, d, k, fmt, rows, probed, saves, exc, call>>

(* create_report is entered: the workbook gets its header row. *)
MainRun ==
    /\ pc = "main"
    /\ main(dirs, output_path) = "run"
    /\ rows' = <<Header>>
    /\ pc' = "loop"
    /\ UNCHANGED <<dirs, output_path, d, k, fmt, probed, saves, out, exc, call>>

AtEndOfPath == IF d = 0 THEN TRUE ELSE k = Len(dirs[d])

NextPath ==
    /\ pc = "loop"
    /\ AtEndOfPath
    /\ d < Len(dirs)
    /\ d' = d + 1
    /\ k' = 0
    /\ out' = Append(out, "Looking in")
    /\ UNCHANGED <<dirs, output_path, pc, fmt, rows, probed, saves, exc, call>>

(* glob yields something os.path.isfile rejects. *)
SkipEntry ==
    /\ pc = "loop"
    /\ ~AtEndOfPath
    /\ ~dirs[d][k + 1].isfile
    /\ k' = k + 1
    /\ UNCHANGED <<dirs, output_path, pc, d, fmt, rows, probed, saves, out, exc, call>>

ProcessFile ==
    /\ pc = "loop"
    /\ ~AtEndOfPath
    /\ dirs[d][k + 1].isfile
    /\ LET file == dirs[d][k + 1]
           r == process_file(<<d, k + 1>>, file.size, file.probe, fmt)
       IN /\ probed' = Append(probed, [path |-> <<d, k + 1>>,
                                       size |-> file.size,
                                       probe |-> file.probe,
                                       meta |-> r.meta])
          /\ out' = out \o <<"Working on">>
                        \o (IF get_metadata(file.probe).printed
                            THEN <<"Error reading metadata">> ELSE <<>>)
          /\ fmt' = r.fmt
          /\ IF r.raised = "none"
             THEN /\ rows' = Append(rows, r.row)
                  /\ k' = k + 1
                  /\ UNCHANGED <<pc, exc>>
             ELSE /\ pc' = "raised"
                  /\ exc' = r.raised
                  /\ UNCHANGED <<rows, k>>
    /\ UNCHANGED <<dirs, output_path, d, saves, call>>

(* Lines 125-132: after the last path, one wb.save, which may fail. *)
SaveReport ==
    /\ pc = "loop"
    /\ AtEndOfPath
    /\ d = Len(dirs)
    /\ \E ok \in BOOLEAN :
          /\ saves' = Append(saves, [target |-> save_target(output_path),
                                     rows |-> rows, ok |-> ok])
          /\ out' = Append(out, IF ok THEN "Done. Saved report"
                                ELSE "Error saving report")
    /\ pc' = "returned"
    /\ UNCHANGED <<dirs, output_path, d, k, fmt, rows, probed, exc, call>>

Next ==
    \/ MainNoDirs
    \/ MainNoOutput
    \/ MainRun
    \/ NextPath
    \/ SkipEntry
    \/ ProcessFile
    \/ SaveReport

Spec == Init /\ [][Next]_vars

-----------------------------------------------------------------------------
(* detect_hdr and parse_framerate called on their own. *)

ColorValues ==
    {None, Str(<<>>), Str(<<"b", "t", "7", "0", "9">>), Str(<<"s", "m", "p", "t", "e", "1", "7", "0", "m">>), Str(<<"b", "t", "2", "0", "2", "0", "n", "c">>),
     Str(<<"B", "T", "2", "0", "2", "0">>), Str(<<"s", "m", "p", "t", "e", "2", "0", "8", "4">>), Str(<<"S", "M", "P", "T", "E", "2", "0", "8", "4">>),
     Str(<<"a", "r", "i", "b", "-", "s", "t", "d", "-", "b", "6", "7">>), Str(<<"A", "r", "i", "b", "-", "S", "t", "d", "-", "B", "6", "7">>), Str(<<"b", "t", "2", "0", "2">>),
     Str(<<"a", "r", "i", "b", "-", "s", "t", "d">>)}

NumeratorTexts ==
    {<<"2", "4", "0", "0", "0">>, <<"3", "0">>, <<"0">>, <<"1">>, <<"-", "1">>, <<"+", "5">>, <<" ", "2", "5">>, <<"a", "b", "c">>,
     <<"2", ".", "5">>, <<>>}

DenominatorTexts ==
    {<<"1", "0", "0", "1">>, <<"1">>, <<"0">>, <<"3">>, <<"-", "2">>, <<"3", "0", "0", "0">>, <<"7", " ">>, <<"x">>,
     <<"1", "e", "3">>, <<>>}

Rates ==
    {Str(n \o <<"/">> \o m) : n \in NumeratorTexts, m \in DenominatorTexts}
    \cup {None, Str(<<>>), Str(<<"2", "5">>), Str(<<"1", "/", "2", "/", "3">>), Str(<<"/", "/">>),
          Str(<<"3", "0", "0", "0", "0", ":", "1", "0", "0", "1">>), Str(<<"2", "4", "0", "0", "0", "/", "1", "0", "0", "1", "/">>)}

IdleProgram ==
    /\ dirs = <<>>
    /\ output_path = <<>>
    /\ pc = "call"
    /\ d = 0
    /\ k = 0
    /\ fmt = Unbound
    /\ rows = <<>>
    /\ probed = <<>>
    /\ saves = <<>>
    /\ out = <<>>
    /\ exc = "none"

Called(fn, args) == [fn |-> fn, args |-> args, ret |-> None, returned |-> FALSE]

InitHdr ==
    /\ IdleProgram
    /\ \E color \in ColorValues, transfer \in ColorValues :
          call = Called("detect_hdr", <<color, transfer>>)

CallDetectHdr ==
    /\ pc = "call"
    /\ call.fn = "detect_hdr"
    /\ ~call.returned
    /\ call' = [call EXCEPT !.ret = detect_hdr(call.args[1], call.args[2]),
                            !.returned = TRUE]
    /\ UNCHANGED <<dirs, output_path, pc, d, k, fmt, rows, probed, saves, out, exc>>

NextHdr == CallDetectHdr

SpecHdr == InitHdr /\ [][NextHdr]_vars

InitFramerate ==
    /\ IdleProgram
    /\ \E rate \in Rates : call = Called("parse_framerate", <<rate>>)

CallParseFramerate ==
    /\ pc = "call"
    /\ call.fn = "parse_framerate"
    /\ ~call.returned
    /\ call' = [call EXCEPT !.ret = parse_framerate(call.args[1]),
                            !.returned = TRUE]
    /\ UNCHANGED <<dirs, output_path, pc, d, k, fmt, rows, probed, saves, out, exc>>

NextFramerate == CallParseFramerate

SpecFramerate == InitFramerate /\ [][NextFramerate]_vars

-----------------------------------------------------------------------------
(* What the claims speak of. *)

SDR == Str(<<"S", "D", "R">>)

HDR == Str(<<"H", "D", "R">>)

(* The data row of the j-th probed file, when it was appended. *)
HasRow(j) == Len(rows) >= j + 1

RowOf(j) == rows[j + 1]

StreamsOf(meta) ==
    IF meta.t = "dict" /\ "streams" \in DOMAIN meta.v THEN meta.v.streams
    ELSE <<>>

IsVideo(stream) ==
    "codec_type" \in DOMAIN stream.v /\ stream.v.codec_type = Str(<<"v", "i", "d", "e", "o">>)

IsAudio(stream) ==
    "codec_type" \in DOMAIN stream.v /\ stream.v.codec_type = Str(<<"a", "u", "d", "i", "o">>)

VideoStreams(meta) == SelectSeq(StreamsOf(meta), IsVideo)

AudioStreams(meta) == SelectSeq(StreamsOf(meta), IsAudio)

Field(stream, key) == IF key \in DOMAIN stream.v THEN stream.v[key] ELSE None

Finished == pc \in {"exit", "returned", "raised"}

(* The number of regular files the enumeration yields. *)
RECURSIVE FilesIn(_)
FilesIn(listing) ==
    IF Len(listing) = 0 THEN 0
    ELSE (IF Head(listing).isfile THEN 1 ELSE 0) + FilesIn(Tail(listing))

RECURSIVE FilesUnder(_)
FilesUnder(ds) ==
    IF Len(ds) = 0 THEN 0 ELSE FilesIn(Head(ds)) + FilesUnder(Tail(ds))

-----------------------------------------------------------------------------
(* C1: every file whose probe result is null, the first file included,     *)
(* gets a row whose resolution, audio_tracks, video_codec, profile,        *)
(* bitrate_kbps, container and frame_rate are null and whose hdr_status is *)
(* "SDR".                                                                  *)
C1_NullProbeGivesNullRow ==
    \A j \in 1..Len(probed) :
        probed[j].meta = None =>
            /\ HasRow(j)
            /\ RowOf(j).res = None
            /\ RowOf(j).audio = None
            /\ RowOf(j).vid_codec = None
            /\ RowOf(j).profile = None
            /\ RowOf(j).bitrate = None
            /\ RowOf(j).container = None
            /\ RowOf(j).framerate = None
            /\ RowOf(j).hdr = SDR

(* C2: a failed probe never aborts the run: the file whose probe failed    *)
(* gets its data row, so the run is never ended by an exception raised     *)
(* while a file with a failed probe is processed, and a run that ended has *)
(* one data row per enumerated file and one save.                          *)
C2_ProbeFailureNeverAborts ==
    /\ \A j \in 1..Len(probed) :
          probed[j].probe \in FailedProbes => HasRow(j)
    /\ (Finished /\ pc # "exit"
        /\ \A j \in 1..Len(probed) : probed[j].probe \in FailedProbes)
          => /\ Len(rows) = 1 + FilesUnder(dirs)
             /\ Len(saves) = 1

(* C3: with several video streams the row's resolution, video_codec,       *)
(* profile, frame_rate and hdr_status come from the first of them.         *)
C3_FirstVideoStreamWins ==
    \A j \in 1..Len(probed) :
        (HasRow(j) /\ Len(VideoStreams(probed[j].meta)) > 1) =>
            LET first == VideoStreams(probed[j].meta)[1]
            IN /\ RowOf(j).res = Str(Format(Field(first, "width")) \o <<"x">>
                                     \o Format(Field(first, "height")))
               /\ RowOf(j).vid_codec = Field(first, "codec_name")
               /\ RowOf(j).profile = Field(first, "profile")
               /\ RowOf(j).framerate
                      = parse_framerate(Field(first, "r_frame_rate"))
               /\ RowOf(j).hdr = detect_hdr(Field(first, "color_space"),
                                            Field(first, "color_transfer"))

(* C4: for a probe result that is not null the normalisation never raises: *)
(* the row is appended, a column whose field is missing or malformed is    *)
(* null, and hdr_status is "HDR" or "SDR".                                 *)
C4_NormaliserNeverRaises ==
    \A j \in 1..Len(probed) :
        probed[j].meta # None =>
            /\ HasRow(j)
            /\ RowOf(j).hdr \in {HDR, SDR}
            /\ ("format" \notin DOMAIN probed[j].meta.v
                    => RowOf(j).bitrate = None /\ RowOf(j).container = None)
            /\ (\A n \in 1..Len(VideoStreams(probed[j].meta)) :
                    "width" \notin DOMAIN VideoStreams(probed[j].meta)[n].v)
                    => RowOf(j).res = None

-----------------------------------------------------------------------------
Language(stream) ==
    IF "tags" \in DOMAIN stream.v /\ "language" \in DOMAIN stream.v.tags.v
    THEN [n \in 1..Len(stream.v.tags.v.language.v) |->
             UpperChar(stream.v.tags.v.language.v[n])]
    ELSE <<"U", "N", "K", "N", "O", "W", "N">>

Descriptor(stream) ==
    <<"T", "r", "a", "c", "k", " ">> \o Format(Field(stream, "index")) \o <<"/">>
    \o Format(Field(stream, "codec_name")) \o <<"/">> \o Language(stream)

RECURSIVE Descriptors(_)
Descriptors(streams) ==
    IF Len(streams) = 1 THEN Descriptor(streams[1])
    ELSE Descriptors(SubSeq(streams, 1, Len(streams) - 1))
         \o <<";", " ">> \o Descriptor(streams[Len(streams)])

(* C5: audio_tracks is the "; "-joined list of one descriptor              *)
(* "Track {index}/{codec_name}/{LANGUAGE}" per audio stream, in stream     *)
(* order, LANGUAGE being the language tag uppercased or "UNKNOWN" without  *)
(* one; it is null without audio streams; with audio streams and no video  *)
(* stream the video columns are null and hdr_status is "SDR".              *)
C5_AudioTracks ==
    \A j \in 1..Len(probed) :
        HasRow(j) =>
            LET audio == AudioStreams(probed[j].meta)
            IN /\ Len(audio) = 0 => RowOf(j).audio = None
               /\ Len(audio) > 0 => RowOf(j).audio = Str(Descriptors(audio))
               /\ (Len(audio) > 0 /\ Len(VideoStreams(probed[j].meta)) = 0)
                     => /\ RowOf(j).res = None
                        /\ RowOf(j).vid_codec = None
                        /\ RowOf(j).profile = None
                        /\ RowOf(j).framerate = None
                        /\ RowOf(j).hdr = SDR

C5_Witness ==
    \E j \in 1..Len(probed) :
        /\ HasRow(j)
        /\ Len(AudioStreams(probed[j].meta)) = 2
        /\ Len(VideoStreams(probed[j].meta)) = 0
        /\ RowOf(j).audio = Str(<<"T", "r", "a", "c", "k", " ", "1", "/", "a", "a", "c", "/", "E", "N", "G", ";", " ", "T", "r", "a", "c", "k", " ", "2", "/", "d", "t", "s", "/", "U", "N", "K", "N", "O", "W", "N">>)

-----------------------------------------------------------------------------
Keywords == {<<"B", "T", "2", "0", "2", "0">>, <<"S", "M", "P", "T", "E", "2", "0", "8", "4">>, <<"A", "R", "I", "B", "-", "S", "T", "D", "-", "B", "6", "7">>}

HasKeyword(x) ==
    /\ x.t = "str"
    /\ \E from \in 1..Len(x.v), to \in 1..Len(x.v) :
          Upper(SubSeq(x.v, from, to)) \in Keywords

(* C6: detect_hdr returns "HDR" exactly when one of its two inputs,        *)
(* compared without regard to case, contains bt2020, smpte2084 or          *)
(* arib-std-b67, and "SDR" in every other case.                            *)
C6_DetectHdr ==
    (call.fn = "detect_hdr" /\ call.returned) =>
        /\ call.ret \in {HDR, SDR}
        /\ call.ret = HDR <=> (HasKeyword(call.args[1])
                               \/ HasKeyword(call.args[2]))

C6_Witness ==
    /\ call.fn = "detect_hdr"
    /\ call.returned
    /\ call.args = <<None, Str(<<"S", "M", "P", "T", "E", "2", "0", "8", "4">>)>>
    /\ call.ret = HDR

-----------------------------------------------------------------------------
IntegerText(s) ==
    LET body == Strip(s)
    IN \E sign \in {<<>>, <<"+">>, <<"-">>} :
          /\ Len(body) > Len(sign)
          /\ SubSeq(body, 1, Len(sign)) = sign
          /\ \A n \in (Len(sign) + 1)..Len(body) : IsDigit(body[n])

Slashes(s) == {n \in 1..Len(s) : s[n] = "/"}

Quotient(rate) ==
    LET at == CHOOSE n \in Slashes(rate.v) : TRUE
        ntext == SubSeq(rate.v, 1, at - 1)
        dtext == SubSeq(rate.v, at + 1, Len(rate.v))
    IN [ok |-> IntegerText(ntext) /\ IntegerText(dtext),
        n |-> int(ntext).v, d |-> int(dtext).v]

WellFormedRate(rate) ==
    /\ rate.t = "str"
    /\ Cardinality(Slashes(rate.v)) = 1
    /\ Quotient(rate).ok
    /\ Quotient(rate).d # 0

(* text reads as [-]i.fff fps with i.fff the thousandth nearest to n / d   *)
ReadsAsQuotient(text, n, dd) ==
    LET neg == Len(text) > 0 /\ text[1] = "-"
        body == IF neg THEN Tail(text) ELSE text
        dot == Len(body) - 7
    IN /\ dot >= 2
       /\ body[dot] = "."
       /\ SubSeq(body, dot + 4, Len(body)) = <<" ", "f", "p", "s">>
       /\ \A m \in (1..(dot - 1)) \cup ((dot + 1)..(dot + 3)) : IsDigit(body[m])
       /\ (dot > 2 => body[1] # "0")
       /\ neg <=> ((n < 0) # (dd < 0))
       /\ LET q == 1000 * DigitsVal(SubSeq(body, 1, dot - 1))
                   + DigitsVal(SubSeq(body, dot + 1, dot + 3))
          IN 2 * Abs(1000 * Abs(n) - q * Abs(dd)) <= Abs(dd)

(* C7: parse_framerate returns "{N/D:.3f} fps" for "N/D" with integers N   *)
(* and D # 0, "24000/1001" giving "23.976 fps", and null for every other   *)
(* input.                                                                  *)
C7_ParseFramerate ==
    (call.fn = "parse_framerate" /\ call.returned) =>
        /\ WellFormedRate(call.args[1]) =>
              /\ call.ret.t = "str"
              /\ ReadsAsQuotient(call.ret.v, Quotient(call.args[1]).n,
                                 Quotient(call.args[1]).d)
        /\ ~WellFormedRate(call.args[1]) => call.ret = None
        /\ call.args[1] = Str(<<"2", "4", "0", "0", "0", "/", "1", "0", "0", "1">>)
              => call.ret = Str(<<"2", "3", ".", "9", "7", "6", " ", "f", "p", "s">>)

C7_Witness ==
    /\ call.fn = "parse_framerate"
    /\ call.returned
    /\ call.args[1] = Str(<<"2", "4", "0", "0", "0", "/", "1", "0", "0", "1">>)
    /\ call.ret = Str(<<"2", "3", ".", "9", "7", "6", " ", "f", "p", "s">>)

-----------------------------------------------------------------------------
(* C8: with no scan directory or no output path the entry point prints a   *)
(* guidance message and does nothing else: nothing is enumerated, probed   *)
(* or saved.                                                               *)
C8_MisconfigurationDoesNothing ==
    (Len(dirs) = 0 \/ Len(output_path) = 0) =>
        /\ pc \in {"main", "exit", "call"}
        /\ d = 0
        /\ rows = <<>>
        /\ probed = <<>>
        /\ saves = <<>>
        /\ pc = "exit" =>
              out \in {<<"Please add your video directory paths">>,
                       <<"Please specify the output path">>}

C8_Witness ==
    /\ pc = "exit"
    /\ Len(dirs) > 0
    /\ FilesUnder(dirs) > 0
    /\ Len(output_path) = 0
    /\ out = <<"Please specify the output path">>

-----------------------------------------------------------------------------
(* C9: every run of create_report persists the report exactly once, after  *)
(* the row of the last enumerated file: the saved rows are the header and  *)
(* the data rows in enumeration order, and a failing save is not retried.  *)
C9_SavedOnceAtEnd ==
    /\ Len(saves) <= 1
    /\ ~Finished => Len(saves) = 0
    /\ pc \in {"returned", "raised"} =>
          /\ Len(saves) = 1
          /\ Len(saves[1].rows) = 1 + FilesUnder(dirs)
          /\ saves[1].rows = rows
          /\ \A j \in 1..Len(probed) : RowOf(j).path = probed[j].path

(* C10: nothing is carried from one file to the next: the container column *)
(* of a row is the format_name of that file's own probe result, or null.   *)
C10_NoStateAcrossFiles ==
    \A j \in 1..Len(probed) :
        HasRow(j) =>
            RowOf(j).container =
                IF probed[j].meta.t = "dict"
                   /\ "format" \in DOMAIN probed[j].meta.v
                   /\ "format_name" \in DOMAIN probed[j].meta.v.format.v
                THEN probed[j].meta.v.format.v.format_name
                ELSE None

====
